---- MODULE Spec2Model ----
(***************************************************************************)
(* Model of crates/bevy_derive/src/uniforms.rs: the derive_uniforms and    *)
(* derive_uniform generators and the AsUniforms implementation they emit.  *)
(*                                                                         *)
(* Strings are sequences of one-character strings, so that format!, the    *)
(* case conversions and the name matches of the generated accessors are    *)
(* computed character by character.                                        *)
(***************************************************************************)
EXTENDS Integers, Sequences, FiniteSets, TLC

(* ------------------------------------------------------------------ *)
(* Bounds                                                               *)
(* ------------------------------------------------------------------ *)

\* Longest field list of an input struct.
MaxFields == 2

(* ------------------------------------------------------------------ *)
(* Strings                                                              *)
(* ------------------------------------------------------------------ *)

LowerChars == <<"a","b","c","d","e","f","g","h","i","j","k","l","m",
                "n","o","p","q","r","s","t","u","v","w","x","y","z">>
UpperChars == <<"A","B","C","D","E","F","G","H","I","J","K","L","M",
                "N","O","P","Q","R","S","T","U","V","W","X","Y","Z">>
DigitChars == <<"0","1","2","3","4","5","6","7","8","9">>

Range(s) == { s[i] : i \in DOMAIN s }

IsLower(c) == c \in Range(LowerChars)
IsUpper(c) == c \in Range(UpperChars)
IsAlphanumeric(c) == IsLower(c) \/ IsUpper(c) \/ c \in Range(DigitChars)

IndexIn(tbl, c) == CHOOSE i \in DOMAIN tbl : tbl[i] = c

\* char::to_uppercase / char::to_lowercase on the ASCII range.
CharUpper(c) == IF IsLower(c) THEN UpperChars[IndexIn(LowerChars, c)] ELSE c
CharLower(c) == IF IsUpper(c) THEN LowerChars[IndexIn(UpperChars, c)] ELSE c

\* str::to_uppercase (line 153).
to_uppercase(s) == [i \in DOMAIN s |-> CharUpper(s[i])]

\* Inflector: trailing separators are trimmed before a snake-like conversion.
RECURSIVE TrimRight(_)
TrimRight(s) ==
    IF s = <<>> \/ IsAlphanumeric(s[Len(s)]) THEN s
    ELSE TrimRight(SubSeq(s, 1, Len(s) - 1))

\* Inflector's to_case_snake_like(s, "_", "upper"): separators collapse to one
\* "_" (none at the start), an upper-case character next to a lower-case one
\* starts a new word, every character is upper-cased.
RECURSIVE SnakeUpperFrom(_, _, _, _)
SnakeUpperFrom(s, i, first_character, result) ==
    IF i > Len(s) THEN result
    ELSE LET c == s[i]
             next_or_prev_lower ==
                 \/ (i < Len(s) /\ IsLower(s[i + 1]))
                 \/ (i > 1 /\ IsLower(s[i - 1]))
         IN IF ~IsAlphanumeric(c)
            THEN IF ~first_character
                 THEN SnakeUpperFrom(s, i + 1, TRUE, Append(result, "_"))
                 ELSE SnakeUpperFrom(s, i + 1, first_character, result)
            ELSE IF ~first_character /\ IsUpper(c) /\ next_or_prev_lower
                 THEN SnakeUpperFrom(s, i + 1, FALSE,
                                     result \o <<"_", CharUpper(c)>>)
                 ELSE SnakeUpperFrom(s, i + 1, FALSE,
                                     Append(result, CharUpper(c)))

\* Inflector's to_screaming_snake_case (line 138).
to_screaming_snake_case(s) == SnakeUpperFrom(TrimRight(s), 1, TRUE, <<>>)

\* Inflector's to_case_camel_like with an upper-case first word and no
\* injected separator: separators are dropped, the character after one (and
\* the first) is upper-cased, an upper-case character after a lower-case one
\* is kept, every other character is lower-cased.
RECURSIVE PascalFrom(_, _, _, _)
PascalFrom(s, i, new_word, result) ==
    IF i > Len(s) THEN result
    ELSE LET c == s[i]
         IN IF ~IsAlphanumeric(c)
            THEN PascalFrom(s, i + 1, TRUE, result)
            ELSE IF new_word
                 THEN PascalFrom(s, i + 1, FALSE, Append(result, CharUpper(c)))
                 ELSE IF IsUpper(c) /\ IsLower(s[i - 1])
                      THEN PascalFrom(s, i + 1, FALSE, Append(result, c))
                      ELSE PascalFrom(s, i + 1, FALSE,
                                      Append(result, CharLower(c)))

\* Inflector's to_pascal_case (line 143).
to_pascal_case(s) == PascalFrom(s, 1, TRUE, <<>>)

\* Display of an unsigned integer, as format!("{}", i) writes it.
RECURSIVE usize_to_string(_)
usize_to_string(n) ==
    IF n < 10 THEN <<DigitChars[n + 1]>>
    ELSE usize_to_string(n \div 10) \o <<DigitChars[(n % 10) + 1]>>

\* Option<T>
None == [some |-> FALSE]
Some(v) == [some |-> TRUE, val |-> v]

(* ------------------------------------------------------------------ *)
(* Input: the DeriveInput handed to the generators                      *)
(* ------------------------------------------------------------------ *)

n_x         == <<"x">>
n_x_sampler == <<"x","_","s","a","m","p","l","e","r">>
n_Ab_x      == <<"A","b","_","x">>
n_Ab        == <<"A","b">>
n_zz        == <<"z","z">>

\* One nested item of #[uniform(...)]: `key`, `key = true`, `key = false`, or
\* `key = <a literal that is no bool>`.
NestedItem(k, v) == [key |-> k, value |-> v]
Word(k) == NestedItem(k, "word")

\* A field attribute: its path (a sequence of segments) and what follows it.
\*   List      #[uniform(a, b = true)]
\*   Path      #[uniform]
\*   NameValue #[uniform = "..."]
\*   NotMeta   tokens syn cannot read as a Meta, e.g. #[uniform(a b)]
Attr(path, kind, nested) == [path |-> path, kind |-> kind, nested |-> nested]
Uniform(nested) == Attr(<<"uniform">>, "List", nested)

\* The annotations a field of an input struct carries.
AttrChoices ==
    { <<>>,
      <<Uniform(<<Word("ignore"), Word("buffer")>>)>>,
      <<Uniform(<<Word("instance")>>)>>,
      <<Uniform(<<Word("vertex")>>)>>,
      <<Uniform(<<Word("buffer")>>)>>,
      <<Uniform(<<Word("ignore"), Word("shader_def"),
                  NestedItem("vertex", "true")>>)>>,
      <<Uniform(<<Word("instance"), Word("vertex"),
                  NestedItem("ignore", "false")>>)>>,
      \* another crate's attribute first
      <<Attr(<<"doc">>, "NameValue", <<>>), Uniform(<<Word("shader_def")>>)>>,
      \* content darling rejects: an unknown key or a value that is no bool,
      \* no list at all
      <<Uniform(<<Word("ignore"), Word("bogus"),
                  NestedItem("vertex", "bad")>>)>>,
      <<Attr(<<"uniform">>, "Path", <<>>)>>,
      \* content syn rejects
      <<Attr(<<"uniform">>, "NotMeta", <<>>)>>,
      \* an attribute whose path is no single identifier
      <<Attr(<<"serde", "skip">>, "Path", <<>>),
        Uniform(<<Word("vertex")>>)>> }

FieldIdents == { n_x, n_x_sampler, n_Ab_x }

\* The declared type of each field.
FieldType(ident) ==
    CASE ident = n_x         -> "Vec3"
      [] ident = n_x_sampler -> "ColorSource"
      [] ident = n_Ab_x      -> "Mat4"

FieldDecls ==
    { [ident |-> id, ty |-> FieldType(id), attrs |-> a] :
          id \in FieldIdents, a \in AttrChoices }

\* Field lists: the host language rules out two fields of one name.
FieldLists ==
    UNION { { fs \in [1..n -> FieldDecls] :
                  \A i, j \in 1..n : i # j => fs[i].ident # fs[j].ident } :
            n \in 0..MaxFields }

DeriveInputs ==
    { [ident |-> n_Ab, data |-> "NamedStruct", fields |-> fs] :
          fs \in FieldLists }
    \cup { [ident |-> n_Ab, data |-> d, fields |-> <<>>] :
               d \in {"TupleStruct", "UnitStruct", "Enum"} }

(* ------------------------------------------------------------------ *)
(* The traits of bevy_render and bevy_core the generated code calls     *)
(* ------------------------------------------------------------------ *)

\* VertexFormat::get_size
get_size(format) ==
    CASE format = "Float3" -> 12
      [] format = "Float4" -> 16

\* AsVertexFormats::as_vertex_formats
as_vertex_formats(ty) ==
    CASE ty = "Vec3"        -> <<"Float3">>
      [] ty = "Mat4"        -> <<"Float4", "Float4", "Float4", "Float4">>
      [] ty = "ColorSource" -> <<>>

\* GetFieldBindType::get_bind_type of a field's value
get_bind_type(ty) ==
    CASE ty = "Vec3"        -> Some([kind |-> "Uniform", size |-> 12])
      [] ty = "Mat4"        -> Some([kind |-> "Uniform", size |-> 64])
      [] ty = "ColorSource" -> Some([kind |-> "Texture", size |-> 0])

\* GetTexture::get_texture
get_texture(ident, ty) ==
    IF ty = "ColorSource" THEN Some(ident) ELSE None

\* Bytes::byte_len
byte_len(ty) ==
    CASE ty = "Vec3"        -> 12
      [] ty = "Mat4"        -> 64
      [] ty = "ColorSource" -> 0

\* Bytes::write_bytes: the value's bytes over the front of the buffer
write_bytes(ty, buffer) ==
    [i \in DOMAIN buffer |-> IF i <= byte_len(ty) THEN byte_len(ty) ELSE buffer[i]]

\* ShaderDefSuffixProvider::get_shader_def
get_shader_def(ty) ==
    CASE ty = "ColorSource" -> Some(<<"_","T","E","X","T","U","R","E">>)
      [] ty = "Mat4"        -> Some(<<>>)
      [] OTHER              -> None

(* ------------------------------------------------------------------ *)
(* Attribute model (lines 8-80)                                         *)
(* ------------------------------------------------------------------ *)

UNIFORM_ATTRIBUTE_NAME == "uniform"

ArgNames == {"ignore", "shader_def", "instance", "vertex", "buffer"}

\* UniformAttributeArgs::default(): every Option is None.
UniformAttributeArgs_default == [k \in ArgNames |-> None]

\* darling's derived UniformAttributeArgs::from_meta. Only a list is read; an
\* unknown key, a key given twice or a value that is no bool is an error.
\* A bare key reads as true.
from_meta(attr) ==
    LET items == attr.nested
        ok == /\ attr.kind = "List"
              /\ \A i \in DOMAIN items :
                    /\ items[i].key \in ArgNames
                    /\ items[i].value \in {"word", "true", "false"}
                    /\ \A j \in DOMAIN items :
                          i # j => items[i].key # items[j].key
        arg(k) == IF \E i \in DOMAIN items : items[i].key = k
                  THEN LET i == CHOOSE i \in DOMAIN items : items[i].key = k
                       IN Some(items[i].value # "false")
                  ELSE None
    IN IF ok THEN [ok |-> TRUE, args |-> [k \in ArgNames |-> arg(k)]]
       ELSE [ok |-> FALSE, args |-> UniformAttributeArgs_default]

unwrap_or(opt, default) == IF opt.some THEN opt.val ELSE default

\* impl From<UniformAttributeArgs> for UniformAttributes (lines 31-41)
UniformAttributes_from(args) ==
    [ignore     |-> unwrap_or(args["ignore"], FALSE),
     shader_def |-> unwrap_or(args["shader_def"], FALSE),
     instance   |-> unwrap_or(args["instance"], FALSE),
     vertex     |-> unwrap_or(args["vertex"], FALSE),
     buffer     |-> unwrap_or(args["buffer"], FALSE)]

\* UniformAttributes::default() (line 22)
UniformAttributes_default ==
    [ignore |-> FALSE, shader_def |-> FALSE, instance |-> FALSE,
     vertex |-> FALSE, buffer |-> FALSE]

\* syn's Path::get_ident: Some for a path of one segment.
get_ident(path) == IF Len(path) = 1 THEN Some(path[1]) ELSE None

\* The find of lines 66-70 from attribute i on: the unwrap of get_ident
\* panics on the first attribute whose path is no identifier.
RECURSIVE find_uniform_attr(_, _)
find_uniform_attr(attrs, i) ==
    IF i > Len(attrs) THEN [panic |-> FALSE, found |-> None]
    ELSE IF ~get_ident(attrs[i].path).some
         THEN [panic |-> TRUE, found |-> None]
         ELSE IF get_ident(attrs[i].path).val = UNIFORM_ATTRIBUTE_NAME
              THEN [panic |-> FALSE, found |-> Some(attrs[i])]
              ELSE find_uniform_attr(attrs, i + 1)

\* The closure of lines 63-79 for one field: its UniformAttributes, or the
\* panic of an unwrap (get_ident, parse_meta).
field_attributes(f) ==
    LET r == find_uniform_attr(f.attrs, 1)
    IN IF r.panic THEN [panic |-> TRUE, attrs |-> UniformAttributes_default]
       ELSE IF ~r.found.some
            THEN [panic |-> FALSE, attrs |-> UniformAttributes_default]
            ELSE IF r.found.val.kind = "NotMeta"
                 THEN [panic |-> TRUE, attrs |-> UniformAttributes_default]
                 ELSE LET m == from_meta(r.found.val)
                      IN [panic |-> FALSE,
                          attrs |-> UniformAttributes_from(
                                        IF m.ok THEN m.args
                                        ELSE UniformAttributeArgs_default)]

(* ------------------------------------------------------------------ *)
(* derive_uniforms (lines 45-261)                                       *)
(* ------------------------------------------------------------------ *)

\* format!("{}_{}", a, b)
format_underscore(a, b) == a \o <<"_">> \o b

SAMPLER_SUFFIX == <<"_","s","a","m","p","l","e","r">>

\* The vectors of lines 84-96, empty.
EmptyTables ==
    [active_uniform_field_names            |-> <<>>,
     active_uniform_field_name_strings     |-> <<>>,
     uniform_name_strings                  |-> <<>>,
     texture_and_sampler_name_strings      |-> <<>>,
     texture_and_sampler_name_idents       |-> <<>>,
     field_infos                           |-> <<>>,
     get_field_bind_types                  |-> <<>>,
     vertex_buffer_field_names_pascal      |-> <<>>,
     vertex_buffer_field_types             |-> <<>>,
     shader_def_field_names                |-> <<>>,
     shader_def_field_names_screaming_snake |-> <<>>]

\* Lines 100-134: what a field that is not ignored adds.
push_bindable(t, struct_name, f, attrs) ==
    LET field_name == f.ident
        uniform == format_underscore(struct_name, field_name)
        texture == uniform
        sampler == uniform \o SAMPLER_SUFFIX
    IN [t EXCEPT
          !.active_uniform_field_names = Append(@, f.ident),
          !.active_uniform_field_name_strings = Append(@, field_name),
          !.uniform_name_strings = Append(@, uniform),
          !.texture_and_sampler_name_strings = @ \o <<texture, sampler>>,
          !.texture_and_sampler_name_idents = @ \o <<f.ident, f.ident>>,
          !.field_infos = Append(@, [name            |-> field_name,
                                     uniform_name    |-> uniform,
                                     texture_name    |-> texture,
                                     sampler_name    |-> sampler,
                                     is_instanceable |-> attrs.instance]),
          !.get_field_bind_types =
              Append(@, [field |-> f.ident, buffer |-> attrs.buffer])]

\* Lines 136-139.
push_shader_def(t, f) ==
    [t EXCEPT
       !.shader_def_field_names = Append(@, f.ident),
       !.shader_def_field_names_screaming_snake =
           Append(@, to_screaming_snake_case(f.ident))]

\* push_vertex_buffer_field with the vertex flag taking precedence.
push_vertex_buffer_field_vertex_first(t, struct_name, f, attrs) ==
    LET pascal_field == to_pascal_case(f.ident)
    IN [t EXCEPT
          !.vertex_buffer_field_types = Append(@, f.ty),
          !.vertex_buffer_field_names_pascal =
              Append(@, IF attrs.vertex
                        THEN format_underscore(struct_name, pascal_field)
                        ELSE <<"I", "_">> \o
                             format_underscore(struct_name, pascal_field))]

\* Lines 141-149.
push_vertex_buffer_field(t, struct_name, f, attrs) ==
    LET pascal_field == to_pascal_case(f.ident)
    IN [t EXCEPT
          !.vertex_buffer_field_types = Append(@, f.ty),
          !.vertex_buffer_field_names_pascal =
              Append(@, IF attrs.instance
                        THEN <<"I", "_">> \o
                             format_underscore(struct_name, pascal_field)
                        ELSE format_underscore(struct_name, pascal_field))]

\* classify_field with an ignored field skipped altogether.
classify_field_skip_ignored(t, struct_name, f, attrs) ==
    IF attrs.ignore THEN t
    ELSE LET t1 == push_bindable(t, struct_name, f, attrs)
             t2 == IF attrs.shader_def THEN push_shader_def(t1, f) ELSE t1
         IN IF attrs.instance \/ attrs.vertex
            THEN push_vertex_buffer_field(t2, struct_name, f, attrs)
            ELSE t2

\* One turn of the loop of lines 98-150.
classify_field(t, struct_name, f, attrs) ==
    LET t1 == IF ~attrs.ignore THEN push_bindable(t, struct_name, f, attrs)
              ELSE t
        t2 == IF attrs.shader_def THEN push_shader_def(t1, f) ELSE t1
    IN IF attrs.instance \/ attrs.vertex
       THEN push_vertex_buffer_field(t2, struct_name, f, attrs)
       ELSE t2

\* The loop of lines 98-150 from field i on.
RECURSIVE classify_fields(_, _, _, _)
classify_fields(t, struct_name, fields, i) ==
    IF i > Len(fields) THEN t
    ELSE classify_fields(
             classify_field(t, struct_name, fields[i],
                            field_attributes(fields[i]).attrs),
             struct_name, fields, i + 1)

\* derive_uniforms: a panic (line 58, or an unwrap of lines 69 and 73), or
\* the tables the emitted code is built from.
derive_uniforms(ast) ==
    IF ast.data # "NamedStruct" THEN [panic |-> TRUE]
    ELSE IF \E i \in DOMAIN ast.fields : field_attributes(ast.fields[i]).panic
         THEN [panic |-> TRUE]
         ELSE [panic |-> FALSE,
               mode |-> "derive_uniforms",
               struct_name_string |-> ast.ident,
               struct_name_uppercase |-> to_uppercase(ast.ident),
               tables |-> classify_fields(EmptyTables, ast.ident,
                                          ast.fields, 1)]

\* derive_uniform (lines 263-331): no look at the fields.
derive_uniform(ast) ==
    [panic |-> FALSE,
     mode |-> "derive_uniform",
     struct_name_string |-> ast.ident,
     struct_name_uppercase |-> to_uppercase(ast.ident),
     tables |-> [EmptyTables EXCEPT
                   !.field_infos = <<[name            |-> ast.ident,
                                      uniform_name    |-> ast.ident,
                                      texture_name    |-> ast.ident,
                                      sampler_name    |-> ast.ident,
                                      is_instanceable |-> FALSE]>>]]

(* ------------------------------------------------------------------ *)
(* The emitted code                                                     *)
(* ------------------------------------------------------------------ *)

\* Lines 174-190: the inner map over one (name, formats) pair from component
\* i on. st carries the closure's captured shader_location and offset and the
\* descriptors collected so far.
RECURSIVE map_formats(_, _, _, _)
map_formats(name, formats, i, st) ==
    IF i > Len(formats) THEN st
    ELSE LET size == get_size(formats[i])
             formatted_name ==
                 IF Len(formats) > 1
                 THEN format_underscore(name, usize_to_string(i - 1))
                 ELSE name
             descriptor == [name            |-> formatted_name,
                            offset          |-> st.offset,
                            format          |-> formats[i],
                            shader_location |-> st.shader_location]
         IN map_formats(name, formats, i + 1,
                        [descriptors     |-> Append(st.descriptors, descriptor),
                         offset          |-> st.offset + size,
                         shader_location |-> st.shader_location + 1])

\* drain_vertex_formats with shader_location starting at 0 for every field.
RECURSIVE drain_vertex_formats_reset_location(_, _, _, _)
drain_vertex_formats_reset_location(names, types, k, st) ==
    IF k > Len(names) THEN st
    ELSE drain_vertex_formats_reset_location(
             names, types, k + 1,
             map_formats(names[k], as_vertex_formats(types[k]), 1,
                         [st EXCEPT !.shader_location = 0]))

\* Lines 173-191: the drain over vertex_formats from pair k on, flattened.
RECURSIVE drain_vertex_formats(_, _, _, _)
drain_vertex_formats(names, types, k, st) ==
    IF k > Len(names) THEN st
    ELSE drain_vertex_formats(
             names, types, k + 1,
             map_formats(names[k], as_vertex_formats(types[k]), 1, st))

\* The Lazy initializer of lines 163-199.
vertex_buffer_descriptor_init(art) ==
    LET st == drain_vertex_formats(
                  art.tables.vertex_buffer_field_names_pascal,
                  art.tables.vertex_buffer_field_types, 1,
                  [descriptors |-> <<>>, offset |-> 0, shader_location |-> 0])
    IN [attributes |-> st.descriptors,
        name       |-> art.struct_name_string,
        step_mode  |-> "Instance",
        stride     |-> st.offset]

\* first_arm with an unmatched name taking the first arm there is.
first_arm_fallthrough(literals, name) ==
    IF \E i \in DOMAIN literals : literals[i] = name
    THEN CHOOSE i \in DOMAIN literals :
             /\ literals[i] = name
             /\ \A j \in DOMAIN literals : literals[j] = name => i <= j
    ELSE IF literals # <<>> THEN 1 ELSE 0

\* A match on string literals takes the first arm whose literal equals the
\* name; 0 stands for the `_` arm.
first_arm(literals, name) ==
    IF \E i \in DOMAIN literals : literals[i] = name
    THEN CHOOSE i \in DOMAIN literals :
             /\ literals[i] = name
             /\ \A j \in DOMAIN literals : literals[j] = name => i <= j
    ELSE 0

\* self.<ident>: the type of the value the field holds.
self_field(ast, ident) ==
    LET i == CHOOSE i \in DOMAIN ast.fields : ast.fields[i].ident = ident
    IN ast.fields[i].ty

\* What the struct's own Bytes and GetFieldBindType impls (which
\* derive_uniform relies on) answer.
self_type == "Vec3"

Returned(v) == [panic |-> FALSE, val |-> v]
Panicked == [panic |-> TRUE, val |-> None]

\* bind_type_arm with a soft failure: an incompatible buffer field reads as
\* absent.
bind_type_arm_no_panic(ast, arm) ==
    LET bind_type == get_bind_type(self_field(ast, arm.field))
    IN IF arm.buffer
       THEN IF bind_type.some /\ bind_type.val.kind = "Uniform"
            THEN Returned(Some([kind |-> "Buffer",
                                size |-> bind_type.val.size]))
            ELSE Returned(None)
       ELSE Returned(bind_type)

\* Lines 121-133: one arm of get_field_bind_type.
bind_type_arm(ast, arm) ==
    LET bind_type == get_bind_type(self_field(ast, arm.field))
    IN IF arm.buffer
       THEN IF bind_type.some /\ bind_type.val.kind = "Uniform"
            THEN Returned(Some([kind |-> "Buffer",
                                size |-> bind_type.val.size]))
            ELSE Panicked
       ELSE Returned(bind_type)

\* get_field_bind_type matching on the uniform-slot names.
get_field_bind_type_by_uniform_name(ast, art, name) ==
    IF art.mode = "derive_uniform"
    THEN IF name = art.struct_name_string
         THEN Returned(get_bind_type(self_type))
         ELSE Returned(None)
    ELSE LET i == first_arm(art.tables.uniform_name_strings, name)
         IN IF i = 0 THEN Returned(None)
            ELSE bind_type_arm(ast, art.tables.get_field_bind_types[i])

\* get_field_bind_type (lines 206-212, 292-298)
get_field_bind_type(ast, art, name) ==
    IF art.mode = "derive_uniform"
    THEN IF name = art.struct_name_string
         THEN Returned(get_bind_type(self_type))
         ELSE Returned(None)
    ELSE LET i == first_arm(art.tables.active_uniform_field_name_strings, name)
         IN IF i = 0 THEN Returned(None)
            ELSE bind_type_arm(ast, art.tables.get_field_bind_types[i])

\* get_uniform_texture (lines 214-220, 315-317)
get_uniform_texture(ast, art, name) ==
    IF art.mode = "derive_uniform" THEN None
    ELSE LET i == first_arm(art.tables.texture_and_sampler_name_strings, name)
         IN IF i = 0 THEN None
            ELSE LET ident == art.tables.texture_and_sampler_name_idents[i]
                 IN get_texture(ident, self_field(ast, ident))

\* write_uniform_bytes (lines 222-228, 300-306): the buffer afterwards
write_uniform_bytes(ast, art, name, buffer) ==
    IF art.mode = "derive_uniform"
    THEN IF name = art.struct_name_string
         THEN write_bytes(self_type, buffer)
         ELSE buffer
    ELSE LET i == first_arm(art.tables.uniform_name_strings, name)
         IN IF i = 0 THEN buffer
            ELSE write_bytes(
                     self_field(ast, art.tables.active_uniform_field_names[i]),
                     buffer)

\* uniform_byte_len (lines 229-235, 307-313)
uniform_byte_len(ast, art, name) ==
    IF art.mode = "derive_uniform"
    THEN IF name = art.struct_name_string THEN byte_len(self_type) ELSE 0
    ELSE LET i == first_arm(art.tables.uniform_name_strings, name)
         IN IF i = 0 THEN 0
            ELSE byte_len(
                     self_field(ast, art.tables.active_uniform_field_names[i]))

\* shader_defs_from with an empty suffix dropped like an absent one.
RECURSIVE shader_defs_from_nonempty(_, _, _)
shader_defs_from_nonempty(ast, art, k) ==
    IF k > Len(art.tables.shader_def_field_names) THEN <<>>
    ELSE LET f == art.tables.shader_def_field_names_screaming_snake[k]
             shader_def ==
                 get_shader_def(
                     self_field(ast, art.tables.shader_def_field_names[k]))
         IN (IF shader_def.some /\ shader_def.val # <<>>
             THEN <<format_underscore(art.struct_name_uppercase, f)
                        \o shader_def.val>>
             ELSE <<>>)
            \o shader_defs_from_nonempty(ast, art, k + 1)

\* Lines 246-249: filter and format the potential shader defs from k on.
RECURSIVE shader_defs_from(_, _, _)
shader_defs_from(ast, art, k) ==
    IF k > Len(art.tables.shader_def_field_names) THEN <<>>
    ELSE LET f == art.tables.shader_def_field_names_screaming_snake[k]
             shader_def ==
                 get_shader_def(
                     self_field(ast, art.tables.shader_def_field_names[k]))
         IN (IF shader_def.some
             THEN <<format_underscore(art.struct_name_uppercase, f)
                        \o shader_def.val>>
             ELSE <<>>)
            \o shader_defs_from(ast, art, k + 1)

\* get_shader_defs (lines 240-250, 322-324)
get_shader_defs(ast, art) ==
    IF art.mode = "derive_uniform" THEN None
    ELSE Some(shader_defs_from(ast, art, 1))

\* get_vertex_buffer_descriptor without the test for no attributes.
get_vertex_buffer_descriptor_unchecked(art, descriptor) ==
    IF art.mode = "derive_uniform" THEN None ELSE Some(descriptor)

\* get_vertex_buffer_descriptor (lines 252-258, 326-328), given the
\* initialized Lazy
get_vertex_buffer_descriptor(art, descriptor) ==
    IF art.mode = "derive_uniform" THEN None
    ELSE IF Len(descriptor.attributes) = 0 THEN None
         ELSE Some(descriptor)

(* ------------------------------------------------------------------ *)
(* State machine                                                        *)
(* ------------------------------------------------------------------ *)

VARIABLES
    ast,         \* the DeriveInput
    pc,          \* "input", "generated" (the artifact is there, no call is
                 \* pending), "returned" (ret holds a call's result),
                 \* "generation_panic", "runtime_panic"
    artifact,    \* what the generator emitted
    descriptor,  \* the Lazy<VertexBufferDescriptor>: None until first forced
    ret          \* the last accessor call: op, name, arg, val

vars == <<ast, pc, artifact, descriptor, ret>>

NoArtifact == [panic |-> TRUE]
NoCall == [op |-> "none", name |-> <<>>, arg |-> <<>>, val |-> None]

Init ==
    /\ ast \in DeriveInputs
    /\ pc = "input"
    /\ artifact = NoArtifact
    /\ descriptor = None
    /\ ret = NoCall

DeriveUniforms ==
    /\ pc = "input"
    /\ artifact' = derive_uniforms(ast)
    /\ pc' = IF artifact'.panic THEN "generation_panic" ELSE "generated"
    /\ UNCHANGED <<ast, descriptor, ret>>

DeriveUniform ==
    /\ pc = "input"
    /\ artifact' = derive_uniform(ast)
    /\ pc' = "generated"
    /\ UNCHANGED <<ast, descriptor, ret>>

\* The names callers pass: every name the struct's fields give rise to, the
\* struct's own name and a name nothing generates.
ProbeNames ==
    { ast.ident, n_zz }
    \cup UNION { { ast.fields[i].ident,
                   format_underscore(ast.ident, ast.fields[i].ident),
                   format_underscore(ast.ident, ast.fields[i].ident)
                       \o SAMPLER_SUFFIX } : i \in DOMAIN ast.fields }

\* The buffers callers pass to write_uniform_bytes.
ProbeBuffers == { [i \in 1..64 |-> 255] }

Call(op, name, arg, val) ==
    /\ ret' = [op |-> op, name |-> name, arg |-> arg, val |-> val]
    /\ pc' = "returned"
    /\ UNCHANGED <<ast, artifact, descriptor>>

GetFieldInfos ==
    /\ pc = "generated"
    /\ Call("get_field_infos", <<>>, <<>>, artifact.tables.field_infos)

GetFieldBindType ==
    /\ pc = "generated"
    /\ \E name \in ProbeNames :
          LET r == get_field_bind_type(ast, artifact, name)
          IN /\ ret' = [op |-> "get_field_bind_type", name |-> name,
                        arg |-> <<>>, val |-> r.val]
             /\ pc' = IF r.panic THEN "runtime_panic" ELSE "returned"
             /\ UNCHANGED <<ast, artifact, descriptor>>

GetUniformTexture ==
    /\ pc = "generated"
    /\ \E name \in ProbeNames :
          Call("get_uniform_texture", name, <<>>,
               get_uniform_texture(ast, artifact, name))

WriteUniformBytes ==
    /\ pc = "generated"
    /\ \E name \in ProbeNames, buffer \in ProbeBuffers :
          Call("write_uniform_bytes", name, buffer,
               write_uniform_bytes(ast, artifact, name, buffer))

UniformByteLen ==
    /\ pc = "generated"
    /\ \E name \in ProbeNames :
          Call("uniform_byte_len", name, <<>>,
               uniform_byte_len(ast, artifact, name))

GetShaderDefs ==
    /\ pc = "generated"
    /\ Call("get_shader_defs", <<>>, <<>>, get_shader_defs(ast, artifact))

\* The first call in derive_uniforms mode forces the Lazy.
GetVertexBufferDescriptor ==
    /\ pc = "generated"
    /\ LET forced == IF artifact.mode = "derive_uniform" \/ descriptor.some
                     THEN descriptor
                     ELSE Some(vertex_buffer_descriptor_init(artifact))
       IN /\ descriptor' = forced
          /\ ret' = [op |-> "get_vertex_buffer_descriptor", name |-> <<>>,
                     arg |-> <<>>,
                     val |-> IF artifact.mode = "derive_uniform" THEN None
                             ELSE get_vertex_buffer_descriptor(artifact,
                                                               forced.val)]
          /\ pc' = "returned"
          /\ UNCHANGED <<ast, artifact>>

\* The caller takes the result; the artifact can be called again.
Resume ==
    /\ pc = "returned"
    /\ pc' = "generated"
    /\ ret' = NoCall
    /\ UNCHANGED <<ast, artifact, descriptor>>

Next ==
    \/ DeriveUniforms
    \/ DeriveUniform
    \/ GetFieldInfos
    \/ GetFieldBindType
    \/ GetUniformTexture
    \/ WriteUniformBytes
    \/ UniformByteLen
    \/ GetShaderDefs
    \/ GetVertexBufferDescriptor
    \/ Resume

Spec == Init /\ [][Next]_vars

(* ------------------------------------------------------------------ *)
(* Vocabulary of the properties                                         *)
(*                                                                      *)
(* The artifact is written by DeriveUniforms and DeriveUniform alone    *)
(* and the Lazy descriptor by GetVertexBufferDescriptor alone, so a     *)
(* property of the artifact is stated of the state generation leaves    *)
(* and a property of the descriptor of the state the call that forces   *)
(* or reads it leaves.                                                  *)
(* ------------------------------------------------------------------ *)

\* derive_uniforms has emitted an artifact for ast.
FieldMode ==
    /\ pc \in {"generated", "returned", "runtime_panic"}
    /\ artifact.mode = "derive_uniforms"

\* The state derive_uniforms leaves behind it.
JustGenerated == FieldMode /\ pc = "generated" /\ ~descriptor.some

\* The state a call of get_vertex_buffer_descriptor leaves behind it.
DescriptorRead ==
    /\ FieldMode
    /\ pc = "returned"
    /\ ret.op = "get_vertex_buffer_descriptor"
    /\ descriptor.some

\* derive_uniform has emitted an artifact for ast.
SingleMode ==
    /\ pc \in {"generated", "returned", "runtime_panic"}
    /\ artifact.mode = "derive_uniform"

\* The flags of a field, as the attribute model reads them.
Flags(f) == field_attributes(f).attrs

IsBindable(f) == ~Flags(f).ignore
IsShaderDef(f) == Flags(f).shader_def
IsVertexInput(f) == Flags(f).instance \/ Flags(f).vertex

BindableFields == SelectSeq(ast.fields, IsBindable)
ShaderDefFields == SelectSeq(ast.fields, IsShaderDef)
VertexInputFields == SelectSeq(ast.fields, IsVertexInput)

RECURSIVE Flatten(_)
Flatten(ss) == IF ss = <<>> THEN <<>> ELSE Head(ss) \o Flatten(Tail(ss))

RECURSIVE SumSizes(_, _)
SumSizes(attributes, n) ==
    IF n = 0 THEN 0
    ELSE get_size(attributes[n].format) + SumSizes(attributes, n - 1)

(* ------------------------------------------------------------------ *)
(* C1                                                                   *)
(* ------------------------------------------------------------------ *)

\* C1: in the built vertex buffer descriptor the attributes are the components
\* of the vertex-input fields in declared order; the k-th attribute (from 0)
\* has shaderLocation k, its offset is the sum of the sizes of the attributes
\* before it, and stride is the last offset plus the last size.
C1_Layout ==
    DescriptorRead =>
        LET attributes == descriptor.val.attributes
            n == Len(attributes)
        IN /\ [k \in 1..n |-> attributes[k].format]
                  = Flatten([i \in DOMAIN VertexInputFields |->
                                as_vertex_formats(VertexInputFields[i].ty)])
           /\ \A k \in 1..n :
                 /\ attributes[k].shader_location = k - 1
                 /\ attributes[k].offset = SumSizes(attributes, k - 1)
           /\ \A k \in 2..n : attributes[k - 1].offset <= attributes[k].offset
           /\ n > 0 => descriptor.val.stride
                          = attributes[n].offset + get_size(attributes[n].format)

\* A Mat4 field followed by a Vec3 field: five attributes, the fifth at
\* location 4 and offset 64, stride 76.
C1_Witness ==
    /\ DescriptorRead
    /\ Len(descriptor.val.attributes) = 5
    /\ descriptor.val.attributes[5].format = "Float3"
    /\ descriptor.val.attributes[5].shader_location = 4
    /\ descriptor.val.attributes[5].offset = 64
    /\ descriptor.val.stride = 76

(* ------------------------------------------------------------------ *)
(* C2                                                                   *)
(* ------------------------------------------------------------------ *)

\* C2: get_vertex_buffer_descriptor returns None for a struct with no field
\* flagged instance or vertex, never returns a descriptor of stride zero, and
\* returns the built descriptor when there is a vertex-input field and every
\* vertex-input field has at least one component.
C2_Descriptor ==
    (FieldMode /\ pc = "returned" /\ ret.op = "get_vertex_buffer_descriptor") =>
        /\ VertexInputFields = <<>> => ret.val = None
        /\ ret.val.some => ret.val.val.stride > 0
        /\ ( /\ VertexInputFields # <<>>
             /\ \A i \in DOMAIN VertexInputFields :
                   Len(as_vertex_formats(VertexInputFields[i].ty)) >= 1 )
           => /\ descriptor.some
              /\ ret.val = Some(descriptor.val)
              /\ Len(descriptor.val.attributes) >= Len(VertexInputFields)

\* A struct with a vertex-input field gets its descriptor back.
C2_Witness ==
    /\ FieldMode
    /\ pc = "returned"
    /\ ret.op = "get_vertex_buffer_descriptor"
    /\ VertexInputFields # <<>>
    /\ ret.val.some
    /\ ret.val.val.stride = 12

(* ------------------------------------------------------------------ *)
(* C10                                                                  *)
(* ------------------------------------------------------------------ *)

\* The attribute names C10 gives field f.
C10_Names(f) ==
    LET pascal == to_pascal_case(f.ident)
        base == IF Flags(f).instance
                THEN <<"I", "_">> \o ast.ident \o <<"_">> \o pascal
                ELSE ast.ident \o <<"_">> \o pascal
        n == Len(as_vertex_formats(f.ty))
    IN IF n = 1 THEN <<base>>
       ELSE [i \in 1..n |-> base \o <<"_">> \o usize_to_string(i - 1)]

\* C10: the attributes of a vertex-input field are named I_S_Pascal(f) when
\* its instance flag is set (also when vertex is set too) and S_Pascal(f) when
\* only vertex is set, with _i (from 0) appended when the field has more than
\* one component.
C10_AttributeNames ==
    DescriptorRead =>
        [k \in 1..Len(descriptor.val.attributes) |->
            descriptor.val.attributes[k].name]
          = Flatten([i \in DOMAIN VertexInputFields |->
                        C10_Names(VertexInputFields[i])])

\* Ab_x: Mat4 flagged instance and vertex, then x: Vec3 flagged vertex only.
C10_Witness ==
    /\ DescriptorRead
    /\ Len(descriptor.val.attributes) = 5
    /\ descriptor.val.attributes[4].name
           = <<"I","_","A","b","_","A","b","X","_","3">>
    /\ descriptor.val.attributes[5].name = <<"A","b","_","X">>

(* ------------------------------------------------------------------ *)
(* C3                                                                   *)
(* ------------------------------------------------------------------ *)

uniform_slot_name(f) == ast.ident \o <<"_">> \o f.ident

\* What the arm generated for bindable field f does: returns the field's own
\* bind type, or for a buffer field Buffer{size} of its Uniform{size}, or
\* panics.
C3_ArmOutcome(f) ==
    LET native == get_bind_type(f.ty)
    IN IF ~Flags(f).buffer THEN [panic |-> FALSE, val |-> native]
       ELSE IF native.some /\ native.val.kind = "Uniform"
            THEN [panic |-> FALSE,
                  val |-> Some([kind |-> "Buffer", size |-> native.val.size])]
            ELSE [panic |-> TRUE, val |-> None]

\* C3 as stated: get_field_bind_type called with the uniform-slot name "S_f"
\* of a bindable field f returns f's bind type, not absent.
C3_KeyedByUniformName ==
    (FieldMode /\ pc = "returned" /\ ret.op = "get_field_bind_type") =>
        \A i \in DOMAIN BindableFields :
            ret.name = uniform_slot_name(BindableFields[i]) => ret.val.some

\* C3 amended: the lookup is keyed by field name. Called with the name of a
\* bindable field f it takes f's arm; called with any other string, f's
\* uniform-slot name included, it returns absent.
C3_KeyedByFieldName ==
    (FieldMode /\ pc \in {"returned", "runtime_panic"}
               /\ ret.op = "get_field_bind_type") =>
        /\ \A i \in DOMAIN BindableFields :
              ret.name = BindableFields[i].ident =>
                  /\ (pc = "runtime_panic")
                        = C3_ArmOutcome(BindableFields[i]).panic
                  /\ ret.val = C3_ArmOutcome(BindableFields[i]).val
        /\ (\A i \in DOMAIN BindableFields : ret.name # BindableFields[i].ident)
              => (pc = "returned" /\ ret.val = None)

\* In struct Ab with fields x and Ab_x, the string "Ab_x" is x's uniform-slot
\* name and the other field's name: the lookup answers for field Ab_x.
C3_Witness ==
    /\ FieldMode
    /\ pc = "returned"
    /\ ret.op = "get_field_bind_type"
    /\ Len(BindableFields) = 2
    /\ BindableFields[1].ident = n_x
    /\ ret.name = uniform_slot_name(BindableFields[1])
    /\ ret.name = BindableFields[2].ident
    /\ ret.val = Some([kind |-> "Uniform", size |-> 64])

(* ------------------------------------------------------------------ *)
(* C4                                                                   *)
(* ------------------------------------------------------------------ *)

\* C4: get_uniform_texture called with the texture name "S_f" or the sampler
\* name "S_f_sampler" of a bindable field f returns what f's own texture
\* accessor returns.
C4_RoutedToProducer ==
    (FieldMode /\ pc = "returned" /\ ret.op = "get_uniform_texture") =>
        \A i \in DOMAIN BindableFields :
            LET f == BindableFields[i]
            IN (\/ ret.name = uniform_slot_name(f)
                \/ ret.name = uniform_slot_name(f) \o SAMPLER_SUFFIX)
               => ret.val = get_texture(f.ident, f.ty)

(* ------------------------------------------------------------------ *)
(* C5                                                                   *)
(* ------------------------------------------------------------------ *)

\* The token C5 gives shader-def field f: none when its value has no suffix.
C5_Tokens(f) ==
    LET suffix == get_shader_def(f.ty)
    IN IF suffix.some
       THEN <<to_uppercase(ast.ident) \o <<"_">>
                  \o to_screaming_snake_case(f.ident) \o suffix.val>>
       ELSE <<>>

\* C5: get_shader_defs returns a present collection holding, in declared field
\* order, one token STRUCT_FIELD<suffix> per shader-def field whose value
\* yields a suffix, and nothing else.
C5_ShaderDefs ==
    (FieldMode /\ pc = "returned" /\ ret.op = "get_shader_defs") =>
        /\ ret.val.some
        /\ ret.val.val = Flatten([i \in DOMAIN ShaderDefFields |->
                                     C5_Tokens(ShaderDefFields[i])])

\* Ab_x (suffix "") then x_sampler (suffix "_TEXTURE"), both shader-def.
C5_Witness ==
    /\ FieldMode
    /\ pc = "returned"
    /\ ret.op = "get_shader_defs"
    /\ ret.val.some
    /\ ret.val.val = << <<"A","B","_","A","B","_","X">>,
                        <<"A","B","_","X","_","S","A","M","P","L","E","R",
                          "_","T","E","X","T","U","R","E">> >>

(* ------------------------------------------------------------------ *)
(* C6                                                                   *)
(* ------------------------------------------------------------------ *)

\* A field flagged buffer whose native bind type is not Uniform{size}.
IncompatibleBuffer(f) ==
    /\ Flags(f).buffer
    /\ ~(get_bind_type(f.ty).some /\ get_bind_type(f.ty).val.kind = "Uniform")

AttributesParse ==
    \A i \in DOMAIN ast.fields : ~field_attributes(ast.fields[i]).panic

HasWellFormedAnnotation(f) ==
    \E k \in DOMAIN f.attrs :
        /\ f.attrs[k].path = <<UNIFORM_ATTRIBUTE_NAME>>
        /\ from_meta(f.attrs[k]).ok

\* C7: on a struct with named fields attribute parsing never aborts
\* derive_uniforms: whatever the annotations, an artifact is emitted, and a
\* field without a well-formed uniform annotation has all five flags false
\* (so it is bindable and has a FieldInfo that is not instanceable).
C7_ParsingNeverAborts ==
    /\ (pc = "generation_panic") => ast.data # "NamedStruct"
    /\ FieldMode =>
          \A i \in DOMAIN ast.fields :
              ~HasWellFormedAnnotation(ast.fields[i]) =>
                  /\ Flags(ast.fields[i]) = UniformAttributes_default
                  /\ \E j \in DOMAIN artifact.tables.field_infos :
                        /\ artifact.tables.field_infos[j].name
                               = ast.fields[i].ident
                        /\ ~artifact.tables.field_infos[j].is_instanceable

(* ------------------------------------------------------------------ *)
(* C8                                                                   *)
(* ------------------------------------------------------------------ *)

\* The names some accessor of the artifact dispatches on.
DispatchKeys ==
    IF artifact.mode = "derive_uniform" THEN { ast.ident }
    ELSE UNION { { BindableFields[i].ident,
                   uniform_slot_name(BindableFields[i]),
                   uniform_slot_name(BindableFields[i]) \o SAMPLER_SUFFIX } :
                 i \in DOMAIN BindableFields }

\* C8: called with a name that is no dispatch key of the artifact, the four
\* accessors do not fail: write_uniform_bytes leaves the buffer as it was,
\* uniform_byte_len returns 0, get_uniform_texture and get_field_bind_type
\* return absent.
C8_InertDefault ==
    ((FieldMode \/ SingleMode) /\ pc \in {"returned", "runtime_panic"}
         /\ ret.name \notin DispatchKeys) =>
        /\ pc = "returned"
        /\ ret.op = "write_uniform_bytes" => ret.val = ret.arg
        /\ ret.op = "uniform_byte_len" => ret.val = 0
        /\ ret.op = "get_uniform_texture" => ret.val = None
        /\ ret.op = "get_field_bind_type" => ret.val = None

\* uniform_byte_len("zz") = 0 on a struct with a bindable field of 12 bytes.
C8_Witness ==
    /\ FieldMode
    /\ pc = "returned"
    /\ ret.op = "uniform_byte_len"
    /\ ret.name = n_zz
    /\ ret.val = 0
    /\ Len(BindableFields) >= 1
    /\ BindableFields[1].ty = "Vec3"

(* ------------------------------------------------------------------ *)
(* C9                                                                   *)
(* ------------------------------------------------------------------ *)

\* C9: fieldInfos has one entry per field that is not ignored, in declared
\* order; the shader-def set is the fields flagged shaderDef and the
\* vertex-input set the fields flagged instance or vertex, ignored or not.
C9_IndependentRoles ==
    JustGenerated =>
        /\ [j \in DOMAIN artifact.tables.field_infos |->
               artifact.tables.field_infos[j].name]
             = [i \in DOMAIN BindableFields |-> BindableFields[i].ident]
        /\ artifact.tables.shader_def_field_names
             = [i \in DOMAIN ShaderDefFields |-> ShaderDefFields[i].ident]
        /\ artifact.tables.vertex_buffer_field_types
             = [i \in DOMAIN VertexInputFields |-> VertexInputFields[i].ty]
        /\ Len(artifact.tables.vertex_buffer_field_names_pascal)
             = Len(VertexInputFields)

\* Two ignored fields, the second a shader-def source and vertex input:
\* no FieldInfo, one shader-def entry, one vertex-input entry.
C9_Witness ==
    /\ JustGenerated
    /\ Len(ast.fields) = 2
    /\ Flags(ast.fields[1]).ignore
    /\ Flags(ast.fields[2]).ignore
    /\ artifact.tables.field_infos = <<>>
    /\ artifact.tables.shader_def_field_names = <<ast.fields[2].ident>>
    /\ artifact.tables.vertex_buffer_field_types = <<ast.fields[2].ty>>

====
